---- MODULE Spec2Model ----
(***************************************************************************)
(* A model of aem-purge-packages.py: the run of main() as a state machine  *)
(* and its helpers (is_conventional, separate_name_from_version,           *)
(* compare_version, determine_best_packages, find_outdated_snapshots,      *)
(* get_package_name_from_path, calculate_size, confirm, purge_packages) as *)
(* operators.                                                              *)
(*                                                                         *)
(* A Python str is a sequence of one-character strings.  A call that can   *)
(* raise returns a record [err, val]: err = "none" and the value, or the   *)
(* name of the exception raised.  Paths and sizes hold no line break, so   *)
(* the regular expressions' "." matches every character and "$" matches    *)
(* at the end of the string only.                                          *)
(***************************************************************************)
EXTENDS Integers, Sequences, FiniteSets, TLC

VARIABLES
    pc,                     \* position of the run inside main()
    force,                  \* args.force
    same_object,            \* equal one-character strings are one object
    packages,               \* result["packages"] of the first query
    conventional_packages,  \* main, line 43
    best_packages,          \* main, line 45
    outdated_packages,      \* main, line 47
    outdated_snapshots,     \* main, line 52
    all_outdated,           \* main, line 53
    total_size,             \* main, line 55 (in millionths of a GB)
    size_to_remove,         \* main, line 57 (in millionths of a GB)
    idx,                    \* purge_packages: index of the next package of the loop
    log,                    \* what the run did to the outside: prompts and delete requests
    exit_status,            \* -1 while running, else the status the process ended with
    exit_at,                \* "none" while running, else where the run ended
    error,                  \* "none", or the exception that ended the run
    arg,                    \* input of the function under check (function specifications)
    ret                     \* its result

vars == <<pc, force, same_object, packages, conventional_packages, best_packages,
          outdated_packages, outdated_snapshots, all_outdated, total_size, size_to_remove, idx, log,
          exit_status, exit_at, error, arg, ret>>

----------------------------------------------------------------------------
(* Strings *)

DigitSeq == <<"0", "1", "2", "3", "4", "5", "6", "7", "8", "9">>

\* \d
Digits == {DigitSeq[k] : k \in 1..10}

DigitVal(c) == (CHOOSE k \in 1..10 : DigitSeq[k] = c) - 1

Letters ==
    {"a", "b", "c", "d", "e", "f", "g", "h", "i", "j", "k", "l", "m",
     "n", "o", "p", "q", "r", "s", "t", "u", "v", "w", "x", "y", "z",
     "A", "B", "C", "D", "E", "F", "G", "H", "I", "J", "K", "L", "M",
     "N", "O", "P", "Q", "R", "S", "T", "U", "V", "W", "X", "Y", "Z"}

\* \w
WordChars == Letters \cup Digits \cup {"_"}

\* \s
Whitespace == {" ", "\t", "\n", "\r", "\f"}

AllDigits(s) == \A k \in 1..Len(s) : s[k] \in Digits

Range(s) == {s[k] : k \in 1..Len(s)}

Max(S) == CHOOSE m \in S : \A n \in S : n <= m

Min(S) == CHOOSE m \in S : \A n \in S : m <= n

\* sub occurs in s starting at position k
OccursAt(s, sub, k) ==
    /\ k >= 1
    /\ k + Len(sub) - 1 <= Len(s)
    /\ SubSeq(s, k, k + Len(sub) - 1) = sub

\* Python: sub in s
Contains(s, sub) == \E k \in 1..Len(s) : OccursAt(s, sub, k)

ZIP == <<".", "z", "i", "p">>

SNAPSHOT == <<".", "s", "n", "a", "p", "s", "h", "o", "t">>

\* Python: s.split(sep) for a one-character sep
RECURSIVE Split(_, _)
Split(s, sep) ==
    IF \A k \in 1..Len(s) : s[k] # sep
    THEN <<s>>
    ELSE LET k == Min({j \in 1..Len(s) : s[j] = sep})
         IN  <<SubSeq(s, 1, k - 1)>> \o Split(SubSeq(s, k + 1, Len(s)), sep)

\* Python: sep.join(parts)
RECURSIVE Join(_, _)
Join(parts, sep) ==
    IF Len(parts) = 0 THEN <<>>
    ELSE IF Len(parts) = 1 THEN parts[1]
    ELSE parts[1] \o <<sep>> \o Join(Tail(parts), sep)

RECURSIVE DecimalValue(_)
DecimalValue(s) ==
    IF Len(s) = 0 THEN 0
    ELSE 10 * DecimalValue(SubSeq(s, 1, Len(s) - 1)) + DigitVal(s[Len(s)])

\* Python: int(s) for a str s.  The tokens the script converts are made of
\* digits, or of digits around one other character, which int() refuses
\* (an underscore between digits, which int() accepts, is outside the model's
\* alphabet).
Int_(s) ==
    IF Len(s) > 0 /\ AllDigits(s)
    THEN [err |-> "none", val |-> DecimalValue(s)]
    ELSE [err |-> "ValueError", val |-> 0]

----------------------------------------------------------------------------
(* is_conventional and separate_name_from_version *)

\* s matches \d{1,3}(\.\d{1,3})?(.\d{1,4})? from its first to its last character:
\* a digits, then a group of b characters ("." and digits) or none, then a
\* group of c characters (any character and digits) or none.
VersionPattern(s) ==
    \E a \in 1..3, b \in {0} \cup 2..4, c \in {0} \cup 2..5 :
        /\ a + b + c = Len(s)
        /\ AllDigits(SubSeq(s, 1, a))
        /\ b > 0 => /\ s[a + 1] = "."
                    /\ AllDigits(SubSeq(s, a + 2, a + b))
        /\ c > 0 => AllDigits(SubSeq(s, a + b + 2, a + b + c))

\* The matches of (^.*-)(\d{1,3}(\.\d{1,3})?(.\d{1,4})?)(\.zip) in path, with
\* a closing $ when anchored: <<h, e>> where group 1 is path[1..h], group 2
\* is path[h+1..e] and ".zip" follows.
ConventionMatches(path, anchored) ==
    {m \in {h \in 1..Len(path) : path[h] = "-"}
             \X {e \in 1..Len(path) : /\ OccursAt(path, ZIP, e + 1)
                                      /\ anchored => e + Len(ZIP) = Len(path)} :
        /\ m[2] > m[1]
        /\ VersionPattern(SubSeq(path, m[1] + 1, m[2]))}

\* re.search: the greedy ".*" of group 1 ends at the last "-" after which the
\* rest of the pattern matches; after a given "-" at most one version is
\* followed by ".zip" (a version holds at most two characters that are not
\* digits), so the match is the one with the greatest h.
GreedyMatch(ms) ==
    IF ms = {} THEN <<0, 0>>
    ELSE CHOOSE x \in ms : \A y \in ms : y[1] <= x[1]

\* <<0, 0>> when the pattern does not match
ConventionSearch(path, anchored) == GreedyMatch(ConventionMatches(path, anchored))

is_conventional(package) ==
    IF Contains(package.path, SNAPSHOT) THEN FALSE
    ELSE ConventionSearch(package.path, TRUE) # <<0, 0>>

\* Returns (group 1, group 2 split on "."); None.group raises AttributeError
\* when the pattern does not match.
Groups(path, parts) ==
    IF parts = <<0, 0>>
    THEN [err |-> "AttributeError", name |-> <<>>, version |-> <<>>]
    ELSE [err |-> "none",
          name |-> SubSeq(path, 1, parts[1]),
          version |-> Split(SubSeq(path, parts[1] + 1, parts[2]), ".")]

separate_name_from_version(path) == Groups(path, ConventionSearch(path, FALSE))

----------------------------------------------------------------------------
(* compare_version *)

\* "comparison is 0" holds exactly when comparison = 0: CPython keeps one
\* object for each small integer.
\* int(v[0]): IndexError when v is empty
FirstNumber(v) ==
    IF Len(v) = 0 THEN [err |-> "IndexError", val |-> 0] ELSE Int_(v[1])

RECURSIVE compare_version(_, _)

\* lines 132-135, a_number and b_number being what lines 130 and 131 gave
Comparison(a, b, a_number, b_number) ==
    IF a_number.err # "none" THEN a_number
    ELSE IF b_number.err # "none" THEN b_number
    ELSE IF a_number.val - b_number.val = 0
    THEN compare_version(Tail(a), Tail(b))
    ELSE [err |-> "none", val |-> a_number.val - b_number.val]

compare_version(a, b) == Comparison(a, b, FirstNumber(a), FirstNumber(b))

----------------------------------------------------------------------------
(* determine_best_packages *)

\* The loop of lines 144-149 from package k on; package_dict is a function
\* from the names seen to the best version seen for each.
\* package_dict[name] = version
Put(package_dict, name, version) ==
    [n \in DOMAIN package_dict \cup {name} |->
        IF n = name THEN version ELSE package_dict[n]]

\* line 148: "less" when the condition holds, "not less" when it does not,
\* or the exception compare_version raised
Verdict(c) ==
    IF c.err # "none" THEN c.err
    ELSE IF c.val < 0 THEN "less" ELSE "not less"

IsBetter(package_dict, name, version) ==
    IF name \notin DOMAIN package_dict THEN "less"
    ELSE Verdict(compare_version(package_dict[name], version))

RECURSIVE BestVersions(_, _, _)

\* lines 146-149 for one package, then the rest of the loop
BestVersionsStep(pkgs, k, package_dict, package_tuple, better) ==
    IF package_tuple.err # "none" THEN [err |-> package_tuple.err, val |-> package_dict]
    ELSE IF better = "less"
    THEN BestVersions(pkgs, k + 1,
                      Put(package_dict, package_tuple.name, package_tuple.version))
    ELSE IF better = "not less" THEN BestVersions(pkgs, k + 1, package_dict)
    ELSE [err |-> better, val |-> package_dict]

BestVersionsAt(pkgs, k, package_dict, package_tuple) ==
    BestVersionsStep(pkgs, k, package_dict, package_tuple,
                     IsBetter(package_dict, package_tuple.name, package_tuple.version))

BestVersions(pkgs, k, package_dict) ==
    IF k > Len(pkgs) THEN [err |-> "none", val |-> package_dict]
    ELSE BestVersionsAt(pkgs, k, package_dict, separate_name_from_version(pkgs[k].path))

\* line 151
BestPackagePaths(package_dict) ==
    {key \o Join(package_dict[key], ".") \o ZIP : key \in DOMAIN package_dict}

\* lines 152-157
BestOf(pkgs, best_package_paths) ==
    LET keep(package) == package.path \in best_package_paths
    IN  SelectSeq(pkgs, keep)

BestPackages(pkgs, d) ==
    IF d.err # "none" THEN [err |-> d.err, val |-> <<>>]
    ELSE [err |-> "none", val |-> BestOf(pkgs, BestPackagePaths(d.val))]

determine_best_packages(pkgs) == BestPackages(pkgs, BestVersions(pkgs, 1, <<>>))

----------------------------------------------------------------------------
(* find_outdated_snapshots *)

\* The matches of (.*)(/)(.*\.zip) in path: <<s, e>> where path[s] is the
\* "/" of group 2 and group 3 is path[s+1..e], ending in ".zip".
NameMatches(path) ==
    {m \in {s \in 1..Len(path) : path[s] = "/"}
             \X {e \in 1..Len(path) : OccursAt(path, ZIP, e - Len(ZIP) + 1)} :
        m[2] - Len(ZIP) >= m[1]}

\* re.search returns None when nothing matches, and None.groups raises
\* AttributeError; otherwise both ".*" are greedy: the last "/" that is
\* followed by a ".zip", then the last ".zip" after it.  "len(...) is 3"
\* holds for every match (CPython keeps one object for each small integer).
GreedyName(path, ms) ==
    IF ms = {} THEN [err |-> "AttributeError", val |-> <<>>]
    ELSE [err |-> "none",
          val |-> CHOOSE n \in {SubSeq(path, m[1] + 1, m[2]) : m \in
                                  {x \in ms : \A y \in ms :
                                      \/ y[1] < x[1]
                                      \/ y[1] = x[1] /\ y[2] <= x[2]}} : TRUE]

get_package_name_from_path(path) == GreedyName(path, NameMatches(path))

\* lines 269-272 from position k of outdated_package_paths on
RECURSIVE OutdatedNames(_, _, _)

OutdatedNamesStep(paths, k, names, name) ==
    IF name.err # "none" THEN [err |-> name.err, val |-> names]
    ELSE OutdatedNames(paths, k + 1, Append(names, name.val))

OutdatedNames(paths, k, names) ==
    IF k > Len(paths) THEN [err |-> "none", val |-> names]
    ELSE OutdatedNamesStep(paths, k, names, get_package_name_from_path(paths[k]))

\* lines 274-279 from package k on
RECURSIVE SnapshotsOf(_, _, _, _)

\* line 277 for a path that contains ".snapshot", name being its package name
SnapshotsStep(pkgs, k, names, result, name) ==
    IF name.err # "none" THEN [err |-> name.err, val |-> result]
    ELSE SnapshotsOf(pkgs, k + 1, names,
                     IF name.val \in Range(names) THEN Append(result, pkgs[k])
                     ELSE result)

SnapshotsOf(pkgs, k, names, result) ==
    IF k > Len(pkgs) THEN [err |-> "none", val |-> result]
    ELSE IF ~Contains(pkgs[k].path, SNAPSHOT)
    THEN SnapshotsOf(pkgs, k + 1, names, result)
    ELSE SnapshotsStep(pkgs, k, names, result, get_package_name_from_path(pkgs[k].path))

\* lines 274-279, outdated_package_names being what lines 266-272 gave
SnapshotsNamed(pkgs, outdated_package_names) ==
    IF outdated_package_names.err # "none"
    THEN [err |-> outdated_package_names.err, val |-> <<>>]
    ELSE SnapshotsOf(pkgs, 1, outdated_package_names.val, <<>>)

find_outdated_snapshots(pkgs, outdated) ==
    SnapshotsNamed(pkgs,
                   OutdatedNames([k \in 1..Len(outdated) |-> outdated[k].path], 1, <<>>))

----------------------------------------------------------------------------
(* calculate_size *)

\* Factors of SIZE_COEFFICIENTS, in millionths of a GB; a size is counted in
\* that unit so that the sum is an integer.
SizeCoefficient(unit) ==
    CASE unit = <<"K", "B">> -> 1
      [] unit = <<"M", "B">> -> 1000
      [] unit = <<"G", "B">> -> 1000000
      [] OTHER -> 0

\* re.search of (\d+)(\s\w{2}) in size: <<i, j>> where group 1 is size[i..j];
\* the first match starts at the leftmost digit of the first run of digits
\* that is followed by a white space and two word characters.
SizeMatches(size) ==
    {m \in (1..Len(size)) \X (1..Len(size)) :
        /\ m[1] <= m[2]
        /\ AllDigits(SubSeq(size, m[1], m[2]))
        /\ m[2] + 3 <= Len(size)
        /\ size[m[2] + 1] \in Whitespace
        /\ size[m[2] + 2] \in WordChars
        /\ size[m[2] + 3] \in WordChars}

\* What one size string adds to the total (lines 119-125): nothing when the
\* pattern does not match.
FirstSizeMatch(ms) ==
    IF ms = {} THEN <<0, 0>>
    ELSE CHOOSE x \in ms : \A y \in ms : x[1] < y[1] \/ (x[1] = y[1] /\ x[2] >= y[2])

\* lines 121-125 for one match: int(group 1) times the factor of the unit,
\* nothing when the unit is not a key of SIZE_COEFFICIENTS
MatchedSize(size, m) ==
    IF m = <<0, 0>> THEN 0
    ELSE DecimalValue(SubSeq(size, m[1], m[2]))
            * SizeCoefficient(SubSeq(size, m[2] + 2, m[2] + 3))

SizeInGb(size) == MatchedSize(size, FirstSizeMatch(SizeMatches(size)))

RECURSIVE calculate_size(_)
calculate_size(pkgs) ==
    IF Len(pkgs) = 0 THEN 0
    ELSE SizeInGb(pkgs[1].size) + calculate_size(Tail(pkgs))

----------------------------------------------------------------------------
(* The records the package query may return *)

\* the greatest number of records one query returns
MaxPackages == 4

Rec(path, size) == [path |-> path, size |-> size]

Size1MB == <<"1", " ", "M", "B">>

PathA10 == <<"a", "/", "p", "-", "1", ".", "0">> \o ZIP

PathA20 == <<"a", "/", "p", "-", "2", ".", "0">> \o ZIP

PathA1 == <<"a", "/", "p", "-", "1">> \o ZIP

PathPlain == <<"a", "/", "p">> \o ZIP

Path10 == <<"p", "-", "1", ".", "0">> \o ZIP

Path20 == <<"p", "-", "2", ".", "0">> \o ZIP

PathSnap10 == <<"p", "-", "1", ".", "0", "/">> \o SNAPSHOT \o <<"/">> \o Path10

Records ==
    {Rec(PathA10, <<"5", "0", "0", " ", "M", "B">>),
     Rec(PathA20, <<"2", " ", "G", "B">>),
     Rec(PathA1, <<"b", "o", "g", "u", "s">>),
     Rec(PathPlain, <<"7", " ", "T", "B">>),
     Rec(Path10, Size1MB),
     Rec(Path20, Size1MB),
     Rec(PathSnap10, Size1MB)}

\* the lists of at most MaxPackages records, no path twice
PackageLists ==
    {l \in UNION {[1..n -> Records] : n \in 0..MaxPackages} :
        \A j, k \in 1..Len(l) : j # k => l[j] # l[k]}

\* a package created after the date bound: the second query (line 55, every
\* path, up to today) returns it and the first does not
LaterRecord == Rec(<<"a", "/", "q", "-", "3">> \o ZIP, <<"1", "2", " ", "K", "B">>)

Answers == {"y", "n", "yes"}

\* how a delete request ends: success true, success false, a status other
\* than 200, an exception of requests.post or of response.json
DeleteOutcomes == {"done", "failed", "status", "unreachable"}

Prompt(kind, path, answer) == [ev |-> kind, path |-> path, info |-> answer]

Delete(path, outcome) == [ev |-> "delete", path |-> path, info |-> outcome]

----------------------------------------------------------------------------
(* main *)

\* the process starts at position start, nothing computed yet
Start(start) ==
    /\ pc = start
    /\ force \in BOOLEAN
    /\ same_object \in BOOLEAN
    /\ packages = <<>>
    /\ conventional_packages = <<>>
    /\ best_packages = <<>>
    /\ outdated_packages = <<>>
    /\ outdated_snapshots = <<>>
    /\ all_outdated = <<>>
    /\ total_size = 0
    /\ size_to_remove = 0
    /\ idx = 0
    /\ log = <<>>
    /\ exit_status = -1
    /\ exit_at = "none"
    /\ error = "none"
    /\ arg = <<>>
    /\ ret = <<>>

Init == Start("get_packages")

\* The process ends: exit(status), the return of main, or an exception that
\* nothing catches (status 1).
Halt(status, at, exception) ==
    /\ pc' = "exit"
    /\ exit_status' = status
    /\ exit_at' = at
    /\ error' = exception

Running(next) ==
    /\ pc' = next
    /\ UNCHANGED <<exit_status, exit_at, error>>

\* line 38, the query answered
GetPackages ==
    /\ pc = "get_packages"
    /\ \E result \in PackageLists : packages' = result
    /\ Running("select")
    /\ UNCHANGED <<force, same_object, conventional_packages, best_packages, outdated_packages,
                   outdated_snapshots, all_outdated, total_size, size_to_remove, idx,
                   log, arg, ret>>

\* line 38, get_packages ends the run (lines 87-94)
GetPackagesFailed ==
    /\ pc = "get_packages"
    /\ Halt(1, "get_packages:38", "none")
    /\ UNCHANGED <<force, same_object, packages, conventional_packages, best_packages,
                   outdated_packages, outdated_snapshots, all_outdated, total_size,
                   size_to_remove, idx, log, arg, ret>>

\* line 43
Conventional(pkgs) == SelectSeq(pkgs, is_conventional)

\* line 47 without its "if package not in best_packages"
OutdatedUnfiltered(conventional, best) == conventional

\* line 47
Outdated(conventional, best) ==
    LET not_best(package) == package \notin Range(best)
    IN  SelectSeq(conventional, not_best)

\* lines 45-47, best being what determine_best_packages gave or raised
Selected(best) ==
    IF best.err # "none"
    THEN /\ Halt(1, "determine_best_packages", best.err)
         /\ UNCHANGED <<best_packages, outdated_packages>>
    ELSE /\ best_packages' = best.val
         /\ outdated_packages' = Outdated(conventional_packages', best.val)
         /\ Running("check")

\* lines 43-47
Select ==
    /\ pc = "select"
    /\ conventional_packages' = Conventional(packages)
    /\ Selected(determine_best_packages(conventional_packages'))
    /\ UNCHANGED <<force, same_object, packages, outdated_snapshots, all_outdated, total_size,
                   size_to_remove, idx, log, arg, ret>>

\* line 49 with a test that never holds
NothingToPurgeNever(outdated) == FALSE

\* line 49: "len(outdated_packages) is 0"
NothingToPurge(outdated) == Len(outdated) = 0

\* lines 52-53, snapshots being what find_outdated_snapshots gave or raised
Correlated(snapshots) ==
    IF snapshots.err # "none"
    THEN /\ Halt(1, "find_outdated_snapshots", snapshots.err)
         /\ UNCHANGED <<outdated_snapshots, all_outdated>>
    ELSE /\ outdated_snapshots' = snapshots.val
         /\ all_outdated' = outdated_packages \o snapshots.val
         /\ Running("size")

\* lines 48-53
Correlate ==
    /\ pc = "check"
    /\ IF NothingToPurge(outdated_packages)
       THEN /\ Halt(0, "main:50", "none")
            /\ UNCHANGED <<outdated_snapshots, all_outdated>>
       ELSE Correlated(find_outdated_snapshots(packages, outdated_packages))
    /\ UNCHANGED <<force, same_object, packages, conventional_packages, best_packages,
                   outdated_packages, total_size, size_to_remove, idx, log, arg, ret>>

\* lines 55-58, the second query answered; print_size only prints
SizeReport ==
    /\ pc = "size"
    /\ \E result \in {packages, Append(packages, LaterRecord)} :
           total_size' = calculate_size(result)
    /\ size_to_remove' = calculate_size(all_outdated)
    /\ Running("confirm")
    /\ UNCHANGED <<force, same_object, packages, conventional_packages, best_packages,
                   outdated_packages, outdated_snapshots, all_outdated, idx, log,
                   arg, ret>>

\* line 55, get_packages ends the run (lines 87-94)
SizeQueryFailed ==
    /\ pc = "size"
    /\ Halt(1, "get_packages:55", "none")
    /\ UNCHANGED <<force, same_object, packages, conventional_packages, best_packages,
                   outdated_packages, outdated_snapshots, all_outdated, total_size,
                   size_to_remove, idx, log, arg, ret>>

\* "a is b" for the str a typed at a prompt and the literal b: the identity
\* of the two objects.  Strings that differ are never one object; whether
\* equal ones are is left to the interpreter (CPython 3.11 answers False for
\* input() is 'y' after "y" was typed, earlier versions answer True).
Is(a, b) == a = b /\ same_object

\* confirm, lines 210-216, for the answer typed: "return", or the exit status
confirm(confirmation) ==
    LET delete == Is(confirmation, "y")
    IN  IF ~delete
        THEN IF ~Is(confirmation, "n") THEN "exit 1" ELSE "exit 0"
        ELSE "return"

\* lines 60-61
Confirm ==
    /\ pc = "confirm"
    /\ \E answer \in Answers, outcome \in {"return", "exit 1", "exit 0"} :
        /\ outcome = confirm(answer)
        /\ log' = Append(log, Prompt("confirm", <<>>, answer))
        /\ IF outcome = "return"
           THEN /\ Running("purge")
                /\ idx' = 1
           ELSE /\ Halt(IF outcome = "exit 1" THEN 1 ELSE 0,
                        IF outcome = "exit 1" THEN "confirm:214" ELSE "confirm:216",
                        "none")
                /\ idx' = idx
    /\ UNCHANGED <<force, same_object, packages, conventional_packages, best_packages,
                   outdated_packages, outdated_snapshots, all_outdated, total_size,
                   size_to_remove, arg, ret>>

\* lines 229-243 without the except of line 240: the exception of the request
\* leaves the loop
delete_requestUncaught(outcome) ==
    IF outcome = "unreachable" THEN "ConnectionError" ELSE "none"

\* The try of lines 229-243 for one request: every outcome is handled inside
\* it (the status other than 200 by the else of line 238, the exception by
\* the except of line 240), so nothing is raised to the loop.
delete_request(outcome) == "none"

\* One turn of the loop of purge_packages, lines 224-243.
PurgeStep ==
    /\ pc = "purge"
    /\ idx <= Len(outdated_packages)
    /\ \E answer \in Answers, outcome \in DeleteOutcomes,
          path \in {outdated_packages[idx].path} :
        \E asked \in {IF force THEN log ELSE Append(log, Prompt("item", path, answer))},
           raised \in {delete_request(outcome)} :
            IF ~(force \/ Is(answer, "y"))
            THEN /\ log' = asked
                 /\ idx' = idx + 1
                 /\ Running("purge")
            ELSE /\ log' = Append(asked, Delete(path, outcome))
                 /\ IF raised # "none"
                    THEN /\ Halt(1, "purge_packages", raised)
                         /\ idx' = idx
                    ELSE /\ idx' = idx + 1
                         /\ Running("purge")
    /\ UNCHANGED <<force, same_object, packages, conventional_packages, best_packages,
                   outdated_packages, outdated_snapshots, all_outdated, total_size,
                   size_to_remove, arg, ret>>

\* the loop is over: purge_packages and main return
PurgeDone ==
    /\ pc = "purge"
    /\ idx > Len(outdated_packages)
    /\ Halt(0, "main:63", "none")
    /\ UNCHANGED <<force, same_object, packages, conventional_packages, best_packages,
                   outdated_packages, outdated_snapshots, all_outdated, total_size,
                   size_to_remove, idx, log, arg, ret>>

Next ==
    \/ GetPackages
    \/ GetPackagesFailed
    \/ Select
    \/ Correlate
    \/ SizeReport
    \/ SizeQueryFailed
    \/ Confirm
    \/ PurgeStep
    \/ PurgeDone

Spec == Init /\ [][Next]_vars

----------------------------------------------------------------------------
(* compare_version alone *)

\* the greatest number of segments of a version handed to compare_version
MaxSegments == 4

VersionTokens == {<<"1">>, <<"9">>, <<"1", "0">>}

VersionSeqs == UNION {[1..n -> VersionTokens] : n \in 1..MaxSegments}

CallCompareVersion ==
    /\ pc = "compare_version"
    /\ \E a \in VersionSeqs, b \in VersionSeqs :
        /\ arg' = <<a, b>>
        /\ ret' = compare_version(a, b)
    /\ pc' = "compared"
    /\ UNCHANGED <<force, same_object, packages, conventional_packages, best_packages,
                   outdated_packages, outdated_snapshots, all_outdated, total_size,
                   size_to_remove, idx, log, exit_status, exit_at, error>>

InitCompare == Start("compare_version")

SpecCompare == InitCompare /\ [][CallCompareVersion]_vars

----------------------------------------------------------------------------
(* is_conventional and separate_name_from_version alone *)

\* the greatest number of characters between the name and ".zip"
MaxVersionLen == 7

VersionChars == {"1", ".", "x"}

VersionStrings == UNION {[1..n -> VersionChars] : n \in 1..MaxVersionLen}

ConventionPaths ==
    {prefix \o v \o suffix :
        prefix \in {<<"p", "-">>, <<"p">>, SNAPSHOT \o <<"/", "p", "-">>},
        v \in VersionStrings,
        suffix \in {ZIP, <<".", "z">>}}

CallIsConventional ==
    /\ pc = "is_conventional"
    /\ \E path \in ConventionPaths :
        /\ arg' = path
        /\ ret' = [conventional |-> is_conventional(Rec(path, <<>>)),
                   parts |-> separate_name_from_version(path)]
    /\ pc' = "classified"
    /\ UNCHANGED <<force, same_object, packages, conventional_packages, best_packages,
                   outdated_packages, outdated_snapshots, all_outdated, total_size,
                   size_to_remove, idx, log, exit_status, exit_at, error>>

InitConvention == Start("is_conventional")

SpecConvention == InitConvention /\ [][CallIsConventional]_vars

----------------------------------------------------------------------------
(* Properties *)

\* determine_best_packages was called (line 45)
SelectCalled ==
    \/ pc \in {"check", "size", "confirm", "purge"}
    \/ pc = "exit" /\ exit_at # "get_packages:38"

\* find_outdated_snapshots was called (line 52)
CorrelateCalled ==
    \/ pc \in {"size", "confirm", "purge"}
    \/ pc = "exit" /\ exit_at \notin {"get_packages:38", "determine_best_packages", "main:50"}

Family(package) == separate_name_from_version(package.path).name

Version(package) == separate_name_from_version(package.path).version

\* the last segment of a path: what follows its last "/", the whole path
\* when it has none
LastSegment(path) ==
    LET slashes == {k \in 1..Len(path) : path[k] = "/"}
    IN  IF slashes = {} THEN path ELSE SubSeq(path, Max(slashes) + 1, Len(path))

IsSnapshot(package) == Contains(package.path, SNAPSHOT)

DeleteEvents == {k \in 1..Len(log) : log[k].ev = "delete"}

\* confirm returned (line 60)
Confirmed == pc = "purge" \/ (pc = "exit" /\ exit_at \in {"purge_packages", "main:63"})

BulkAnswered(answer) == Len(log) > 0 /\ log[1] = Prompt("confirm", <<>>, answer)

\* C1: for every list of conventional records, determine_best_packages
\* returns exactly one record for each family, and the version of that record
\* compares greater than or equal to the version of every other record of the
\* family under compare_version.
C1_OneBestPerFamily ==
    SelectCalled =>
        /\ exit_at # "determine_best_packages"
        /\ \A r \in Range(conventional_packages) :
            /\ Cardinality({b \in Range(best_packages) : Family(b) = Family(r)}) = 1
            /\ \A b \in Range(best_packages) :
                (Family(b) = Family(r) /\ b # r) =>
                    /\ compare_version(Version(b), Version(r)).err = "none"
                    /\ compare_version(Version(b), Version(r)).val >= 0

\* the version of parts compares less than that of greater, of the same family
Exceeded(parts, greater) ==
    /\ greater.name = parts.name
    /\ Verdict(compare_version(parts.version, greater.version)) = "less"

\* the query returned a conventional record of the family of parts and of a
\* greater version
HasGreater(parts) ==
    \E o \in Range(packages) :
        /\ is_conventional(o)
        /\ Exceeded(parts, separate_name_from_version(o.path))

C3_NothingToPurgeEndsRun ==
    (SelectCalled /\ exit_at # "determine_best_packages" /\ Len(outdated_packages) = 0) =>
        /\ log = <<>>
        /\ \/ pc = "check"
           \/ pc = "exit" /\ exit_at = "main:50" /\ exit_status = 0

\* the run ended at line 50 on a query that returned records
C3_Witness ==
    /\ pc = "exit"
    /\ exit_at = "main:50"
    /\ Len(packages) > 1
    /\ Len(outdated_packages) = 0

\* C4: with the force flag set and the purge confirmed (confirm returned,
\* the first prompt answered "y"), the delete requests sent are those of the
\* outdated list, one each, in the order of the list;
\* whatever the outcome of a request the loop goes on, and the run ends only
\* after the request for the last record, with status 0.
C4_ForcedPurgeDeletesAll ==
    (force /\ Confirmed) =>
        /\ BulkAnswered("y")
        /\ \A k \in 2..Len(log) : /\ log[k].ev = "delete"
                                  /\ k - 1 <= Len(outdated_packages)
                                  /\ log[k].path = outdated_packages[k - 1].path
        /\ \/ /\ pc = "purge"
              /\ idx = Len(log)
              /\ ENABLED (PurgeStep \/ PurgeDone)
           \/ /\ pc = "exit"
              /\ exit_at = "main:63"
              /\ exit_status = 0
              /\ Len(log) = Len(outdated_packages) + 1

\* a forced purge ended after a request that failed was followed by another
C4_Witness ==
    /\ force
    /\ pc = "exit"
    /\ exit_at = "main:63"
    /\ Len(log) >= 3
    /\ log[2].ev = "delete"
    /\ log[2].info \in {"status", "unreachable"}
    /\ log[3].ev = "delete"

\* C5: a delete request is sent only after the first prompt was answered "y";
\* the answer "n" ends the run with status 0 and any other answer but "y"
\* ends it with status 1, nothing sent; without the force flag each delete
\* request directly follows the prompt for its own path answered "y".
C5_ConfirmationGates ==
    /\ DeleteEvents # {} => BulkAnswered("y")
    /\ Len(log) > 0 => /\ log[1].ev = "confirm"
                       /\ log[1].info # "y" =>
                            /\ Len(log) = 1
                            /\ pc = "exit"
                            /\ exit_status = IF log[1].info = "n" THEN 0 ELSE 1
    /\ ~force => \A k \in DeleteEvents :
                    /\ k > 1
                    /\ log[k - 1] = Prompt("item", log[k].path, "y")

\* C7: find_outdated_snapshots returns exactly the records whose path holds
\* ".snapshot" and whose last path segment is the last path segment of an
\* outdated record.
C7_SnapshotsExactlyByFilename ==
    CorrelateCalled =>
        /\ exit_at # "find_outdated_snapshots"
        /\ Range(outdated_snapshots) =
              {r \in Range(packages) :
                  /\ IsSnapshot(r)
                  /\ LastSegment(r.path) \in
                        {LastSegment(o.path) : o \in Range(outdated_packages)}}

\* C8: an outdated path with no "/" in it gives no name and no error:
\* find_outdated_snapshots completes, and for the records p-1.0.zip,
\* p-2.0.zip, p-1.0/.snapshot/p-1.0.zip the run obtains the outdated list
\* [p-1.0.zip] and the outdated snapshots [p-1.0/.snapshot/p-1.0.zip].
C8_PathWithoutSlashIsSkipped ==
    /\ (CorrelateCalled /\ \E o \in Range(outdated_packages) : "/" \notin Range(o.path)) =>
            /\ exit_at # "find_outdated_snapshots"
            /\ error = "none"
    /\ (CorrelateCalled /\ packages = <<Rec(Path10, Size1MB), Rec(Path20, Size1MB),
                                         Rec(PathSnap10, Size1MB)>>) =>
            /\ outdated_packages = <<Rec(Path10, Size1MB)>>
            /\ outdated_snapshots = <<Rec(PathSnap10, Size1MB)>>

\* C10: the list summed for the size to remove holds no record selected as
\* best and no snapshot whose last path segment is that of a record selected
\* as best.
C10_FreedSetHoldsNoKeptRecord ==
    \A r \in Range(all_outdated) :
        /\ r \notin Range(best_packages)
        /\ IsSnapshot(r) =>
              LastSegment(r.path) \notin {LastSegment(b.path) : b \in Range(best_packages)}

\* the order the two versions are said to have: that of the integers at the
\* first position where they differ, 0 when they agree on every position of
\* the shorter one
ClaimedOrder(a, b) ==
    LET n == IF Len(a) < Len(b) THEN Len(a) ELSE Len(b)
        differ == {k \in 1..n : DecimalValue(a[k]) # DecimalValue(b[k])}
    IN  IF differ = {} THEN 0
        ELSE DecimalValue(a[Min(differ)]) - DecimalValue(b[Min(differ)])

Sign(n) == IF n > 0 THEN 1 ELSE IF n < 0 THEN -1 ELSE 0

\* C9: for two versions of 1 to MaxSegments numeric tokens each,
\* compare_version raises nothing and returns a number whose sign is the
\* order of the integers at the first position where the versions differ,
\* 0 when they agree on every position of the shorter one.
C9_CompareVersionReturns ==
    pc = "compared" =>
        /\ ret.err = "none"
        /\ Sign(ret.val) = Sign(ClaimedOrder(arg[1], arg[2]))

\* 1 to 4 segments of 1 to 4 digits each, "." between them
ClaimedVersion(v) ==
    LET segments == Split(v, ".")
    IN  /\ Len(segments) \in 1..4
        /\ \A k \in 1..Len(segments) : /\ Len(segments[k]) \in 1..4
                                       /\ AllDigits(segments[k])

\* <family>-<version>.zip with no ".snapshot" in it
ClaimedConventional(path) ==
    /\ ~Contains(path, SNAPSHOT)
    /\ Len(path) > Len(ZIP)
    /\ OccursAt(path, ZIP, Len(path) - Len(ZIP) + 1)
    /\ \E h \in 1..Len(path) - Len(ZIP) :
        /\ path[h] = "-"
        /\ ClaimedVersion(SubSeq(path, h + 1, Len(path) - Len(ZIP)))

\* C6: is_conventional holds of a record exactly when its path is
\* <family>-<version>.zip, the version being 1 to 4 segments of 1 to 4 digits
\* with "." between them, and holds no ".snapshot"; separate_name_from_version
\* then gives that family and those segments, all numeric.
C6_ConventionalIffNameVersionZip ==
    pc = "classified" =>
        /\ ret.conventional <=> ClaimedConventional(arg)
        /\ ret.conventional =>
            /\ ret.parts.err = "none"
            /\ ret.parts.name \o Join(ret.parts.version, ".") \o ZIP = arg
            /\ \A k \in 1..Len(ret.parts.version) : AllDigits(ret.parts.version[k])

====
